---- MODULE Spec2Model ----
(***************************************************************************)
(* The Lenny Lens API: the conversational retrieval query pipeline of      *)
(* backend/main.py together with the rate limiter of                       *)
(* backend/rate_limiter.py.                                                *)
(*                                                                         *)
(* Time is a discrete clock `now`; one day is Day ticks.  A request        *)
(* handler is `async def` without a single `await`, so it runs to          *)
(* completion on the event loop: every handler is one atomic action.  The  *)
(* order of what a handler does inside that action is kept in the history  *)
(* variable `resp` (field trace).                                          *)
(***************************************************************************)
EXTENDS Integers, Sequences, FiniteSets, TLC

VARIABLES
    now,                    \* datetime.now(), in ticks
    query_log,              \* rate_limiter.query_log : ip -> list of timestamps
    conversation_sessions,  \* main.conversation_sessions : ip -> list of turns
    db_query_log,           \* rows of the database table query_log
    admitted,               \* history: per ip, the times of the checks admitted in the last 24 hours
    denied,                 \* history: per ip, when and under which limit a check was last denied
    served,                 \* history: the number of search requests handled so far
    resp,                   \* history: the last operation, its result and its trace
    fn,                     \* the pure function under check, its input and its output
    reset_phase             \* history: per ip, "limited" after a conversation-limit rejection, "reset" once
                            \* cleared after it, "readmitted" once accepted after that, else "open"

vars == <<now, query_log, conversation_sessions, db_query_log, admitted, denied, served,
          resp, fn, reset_phase>>

----------------------------------------------------------------------------
(* Bounds of the model *)

Day == 2            \* ticks in 24 hours
MaxTime == 3        \* the clock stops here
MaxLimit == 3       \* limits tried on check_rate_limit called on its own
MaxRequests == 2    \* search requests in one behaviour of Spec
MaxRows == 1        \* rows the table query_log takes before its inserts fail
MaxChunks == 5      \* rows of a search result given to the quality filter on its own
MaxWords == 3       \* phrases of a query given to detect_query_type on its own
MaxTurns == 2       \* turns of a session given to the search parameters on their own
MaxAsked == 4       \* questions of one behaviour of SpecContext
LongBy == 3         \* characters a long answer has beyond the 250 a context keeps
MaxDecay == 7       \* search requests in one behaviour of SpecDecay

Clients == {"c1", "c2"}
NoClient == "-"

----------------------------------------------------------------------------
(* Sequence helpers *)

Take(s, n) == SubSeq(s, 1, IF n < Len(s) THEN n ELSE Len(s))

LastN(s, n) == SubSeq(s, IF Len(s) > n THEN Len(s) - n + 1 ELSE 1, Len(s))

----------------------------------------------------------------------------
(* backend/rate_limiter.py *)

\* timedelta(days=1)
RL_WINDOW == Day

\* a check that drops nothing
rl_clean_keeping(log, t) == log

\* the trimming that keeps a timestamp exactly 24 hours old
rl_clean_inclusive(log, t) ==
    LET cutoff == t - RL_WINDOW
        Fresh(timestamp) == timestamp >= cutoff
    IN  SelectSeq(log, Fresh)

\* [timestamp for timestamp in query_log[ip_address] if timestamp > cutoff]
rl_clean(log, t) ==
    LET cutoff == t - RL_WINDOW
        Fresh(timestamp) == timestamp > cutoff
    IN  SelectSeq(log, Fresh)

\* the comparison of the limit taken strictly
rl_over_limit_strict(queries_today, limit) == queries_today > limit

rl_over_limit(queries_today, limit) == queries_today >= limit

\* check_rate_limit that does not count the query it admits
check_rate_limit_uncounted(log, t, limit) ==
    LET cleaned == rl_clean(log, t)
        queries_today == Len(cleaned)
    IN  IF rl_over_limit(queries_today, limit)
        THEN [allowed |-> FALSE, queries_remaining |-> 0,
              queries_today |-> queries_today, log |-> cleaned]
        ELSE [allowed |-> TRUE, queries_remaining |-> limit - queries_today,
              queries_today |-> queries_today + 1, log |-> Append(cleaned, t)]

\* check_rate_limit(ip_address, limit): the returned dict, and in field log
\* the value query_log[ip_address] is left with
check_rate_limit(log, t, limit) ==
    LET cleaned == rl_clean(log, t)
        queries_today == Len(cleaned)
    IN  IF rl_over_limit(queries_today, limit)
        THEN [allowed |-> FALSE, queries_remaining |-> 0,
              queries_today |-> queries_today, log |-> cleaned]
        ELSE [allowed |-> TRUE, queries_remaining |-> limit - queries_today - 1,
              queries_today |-> queries_today + 1, log |-> Append(cleaned, t)]

----------------------------------------------------------------------------
(* Text.  A Python str is the sequence of its characters. *)

UPPER == <<"A","B","C","D","E","F","G","H","I","J","K","L","M","N","O","P","Q","R","S","T","U","V","W","X","Y","Z">>
LOWER == <<"a","b","c","d","e","f","g","h","i","j","k","l","m","n","o","p","q","r","s","t","u","v","w","x","y","z">>

Range(s) == {s[i] : i \in 1..Len(s)}

IsUpper(c) == c \in Range(UPPER)
IsLower(c) == c \in Range(LOWER)
IsSpace(c) == c = " "

SetMin(S) == CHOOSE x \in S : \A y \in S : x <= y
SetMax(S) == CHOOSE x \in S : \A y \in S : x >= y

\* str.lower()
lower_char(c) == IF IsUpper(c) THEN LOWER[CHOOSE i \in 1..26 : UPPER[i] = c] ELSE c
str_lower(s) == [i \in 1..Len(s) |-> lower_char(s[i])]

\* the literal lit stands in s at position i (1-based)
HasAt(s, i, lit) ==
    /\ i >= 1
    /\ i + Len(lit) - 1 <= Len(s)
    /\ \A k \in 1..Len(lit) : s[i + k - 1] = lit[k]

\* lit in s
Contains(s, lit) == \E i \in 1..(Len(s) + 1) : HasAt(s, i, lit)

\* s.startswith(lit)
StartsWith(s, lit) == HasAt(s, 1, lit)

\* str.strip()
str_strip(s) ==
    LET solid == {i \in 1..Len(s) : ~IsSpace(s[i])}
    IN  IF solid = {} THEN <<>> ELSE SubSeq(s, SetMin(solid), SetMax(solid))

\* len(s.split()): the number of maximal runs of non-blank characters
word_count(s) ==
    Cardinality({i \in 1..Len(s) : ~IsSpace(s[i]) /\ (i = 1 \/ IsSpace(s[i - 1]))})

\* None, which is no str
None == <<"None", "None">>

----------------------------------------------------------------------------
(* Regular expressions of backend/main.py *)

\* [A-Z] and [a-z] under the flags of the search
re_upper(c, ignorecase) == IF ignorecase THEN IsUpper(c) \/ IsLower(c) ELSE IsUpper(c)
re_lower(c, ignorecase) == IF ignorecase THEN IsUpper(c) \/ IsLower(c) ELSE IsLower(c)

\* the ends j (exclusive) of the matches of [A-Z][a-z]+ that start at i
word_ends(s, i, ignorecase) ==
    {j \in (i + 2)..(Len(s) + 1) :
        /\ re_upper(s[i], ignorecase)
        /\ \A k \in (i + 1)..(j - 1) : re_lower(s[k], ignorecase)}

\* the ends j (exclusive) of the matches of [A-Z][a-z]+(?: [A-Z][a-z]+)* that start at i
RECURSIVE name_ends(_, _, _)
name_ends(s, i, ignorecase) ==
    LET w == word_ends(s, i, ignorecase)
    IN  w \cup UNION {IF j <= Len(s) /\ s[j] = " "
                      THEN name_ends(s, j + 1, ignorecase) ELSE {} : j \in w}

\* re.search(before + "([A-Z][a-z]+(?: [A-Z][a-z]+)*)" + after, s, flags).group(1)
\* where before and after are alternatives of literals: the leftmost start
\* wins, and the greedy quantifiers give the longest name the rest of the
\* pattern still matches after.  None when nothing matches.
re_search_name(s, before, after, ignorecase) ==
    LET text == IF ignorecase THEN str_lower(s) ELSE s
        Ends(p, pre) == {j \in name_ends(s, p + Len(pre), ignorecase) :
                            \E suf \in after : HasAt(text, j, suf)}
        Hit(p, pre) == HasAt(text, p, pre) /\ Ends(p, pre) # {}
        starts == {p \in 1..Len(s) : \E pre \in before : Hit(p, pre)}
    IN  IF starts = {} THEN None
        ELSE LET p == SetMin(starts)
                 pre == CHOOSE x \in before : Hit(p, x)
             IN  SubSeq(s, p + Len(pre), SetMax(Ends(p, pre)) - 1)

\* the three patterns of extract_guest_name, each as <<before, after>>
GUEST_PATTERNS == <<
    <<{<<"w","h","a","t"," ","d","i","d"," ">>, <<"w","h","a","t"," ","d","o","e","s"," ">>},
      {<<" ","s","a","y">>, <<" ","t","h","i","n","k">>, <<" ","m","e","n","t","i","o","n">>, <<" ","d","i","s","c","u","s","s">>}>>,
    <<{<<>>},
      {<<"'","s"," ","a","p","p","r","o","a","c","h">>, <<"'","s"," ","v","i","e","w">>, <<"'","s"," ","p","e","r","s","p","e","c","t","i","v","e">>, <<"'","s"," ","t","h","o","u","g","h","t">>}>>,
    <<{<<"a","c","c","o","r","d","i","n","g"," ","t","o"," ">>}, {<<>>}>> >>

\* re.IGNORECASE, as extract_guest_name passes it to re.search
GUEST_IGNORECASE == TRUE

RECURSIVE first_guest_match(_, _)
first_guest_match(query, n) ==
    IF n > Len(GUEST_PATTERNS) THEN None
    ELSE LET m == re_search_name(query, GUEST_PATTERNS[n][1], GUEST_PATTERNS[n][2],
                                 GUEST_IGNORECASE)
         IN  IF m # None THEN str_strip(m) ELSE first_guest_match(query, n + 1)

extract_guest_name(query) == first_guest_match(query, 1)

\* re.search(lit + "(.+?)[\?]?$", s, re.IGNORECASE).group(1): the leftmost
\* lit with at least one character after it; the lazy group stops before one
\* final "?" when it can
re_search_tail(s, lit) ==
    LET text == str_lower(s)
        starts == {p \in 1..Len(s) : HasAt(text, p, lit) /\ p + Len(lit) <= Len(s)}
    IN  IF starts = {} THEN None
        ELSE LET from == SetMin(starts) + Len(lit)
                 to == IF s[Len(s)] = "?" /\ Len(s) - 1 >= from THEN Len(s) - 1 ELSE Len(s)
             IN  SubSeq(s, from, to)

\* re.sub(r'[?.!]+$', '', topic)
strip_trailing_punct(topic) ==
    LET keep == {i \in 1..Len(topic) : topic[i] \notin {"?", ".", "!"}}
    IN  IF keep = {} THEN <<>> ELSE SubSeq(topic, 1, SetMax(keep))

TOPIC_PATTERNS == <<<<"s","a","y"," ","a","b","o","u","t"," ">>, <<"t","h","i","n","k"," ","a","b","o","u","t"," ">>, <<"m","e","n","t","i","o","n"," ","a","b","o","u","t"," ">>,
                    <<"d","i","s","c","u","s","s"," ">>, <<"o","n"," ">>, <<"r","e","g","a","r","d","i","n","g"," ">>>>

RECURSIVE first_topic_match(_, _)
first_topic_match(query, n) ==
    IF n > Len(TOPIC_PATTERNS) THEN None
    ELSE LET m == re_search_tail(query, TOPIC_PATTERNS[n])
         IN  IF m # None THEN strip_trailing_punct(str_strip(m))
             ELSE first_topic_match(query, n + 1)

extract_topic_from_guest_query(query) == first_topic_match(query, 1)

GUEST_PHRASES == {<<"w","h","a","t"," ","d","i","d">>, <<"w","h","a","t"," ","d","o","e","s">>, <<"'","s"," ","a","p","p","r","o","a","c","h">>, <<"'","s"," ","v","i","e","w">>}
COMPARISON_WORDS == {<<"c","o","m","p","a","r","e">>, <<"v","s">>, <<"v","e","r","s","u","s">>, <<"d","i","f","f","e","r","e","n","c","e">>, <<"c","o","n","t","r","a","s","t">>}
HOWTO_PREFIXES == {<<"h","o","w"," ","t","o">>, <<"h","o","w"," ","d","o">>, <<"h","o","w"," ","c","a","n">>}
DEFINITION_PREFIXES == {<<"w","h","a","t"," ","i","s">>, <<"w","h","a","t"," ","a","r","e">>}

\* the first rule of detect_query_type: a guest phrase and an extractable name
is_guest_query(query) ==
    /\ \E phrase \in GUEST_PHRASES : Contains(str_lower(query), phrase)
    /\ LET guest == extract_guest_name(query)
       IN  guest # None /\ guest # <<>>

\* detect_query_type with the comparison rule ahead of the guest rule
detect_query_type_comparison_first(query) ==
    LET q == str_lower(query)
    IN  IF \E w \in COMPARISON_WORDS : Contains(q, w) THEN "comparison"
        ELSE IF is_guest_query(query) THEN "guest_specific"
        ELSE IF \E p \in HOWTO_PREFIXES : StartsWith(q, p) THEN "how_to"
        ELSE IF \E p \in DEFINITION_PREFIXES : StartsWith(q, p) THEN "definition"
        ELSE "general"

\* detect_query_type that tries the how-to and definition prefixes before the
\* comparison keywords
detect_query_type_prefixes_first(query) ==
    LET q == str_lower(query)
    IN  IF is_guest_query(query) THEN "guest_specific"
        ELSE IF \E p \in HOWTO_PREFIXES : StartsWith(q, p) THEN "how_to"
        ELSE IF \E p \in DEFINITION_PREFIXES : StartsWith(q, p) THEN "definition"
        ELSE IF \E w \in COMPARISON_WORDS : Contains(q, w) THEN "comparison"
        ELSE "general"

detect_query_type(query) ==
    LET q == str_lower(query)
    IN  IF is_guest_query(query) THEN "guest_specific"
        ELSE IF \E w \in COMPARISON_WORDS : Contains(q, w) THEN "comparison"
        ELSE IF \E p \in HOWTO_PREFIXES : StartsWith(q, p) THEN "how_to"
        ELSE IF \E p \in DEFINITION_PREFIXES : StartsWith(q, p) THEN "definition"
        ELSE "general"

----------------------------------------------------------------------------
(* Retrieved chunks.  A similarity is in hundredths: 35 is 0.35.  A chunk is
   [id, similarity]; the store returns chunks by descending similarity. *)

SIMILARITY_THRESHOLD == 35
MIN_HIGH_QUALITY == 3
FALLBACK_TOP == 3

\* the threshold taken inclusively
is_high_quality_inclusive(c) == c.similarity >= SIMILARITY_THRESHOLD

is_high_quality(c) == c.similarity > SIMILARITY_THRESHOLD

\* the quality filter without its fallback
quality_filter_no_fallback(chunks) == SelectSeq(chunks, is_high_quality)

\* the quality filter of search_with_answer
quality_filter(chunks) ==
    LET high_quality_chunks == SelectSeq(chunks, is_high_quality)
    IN  IF Len(high_quality_chunks) < MIN_HIGH_QUALITY
        THEN Take(chunks, FALLBACK_TOP)
        ELSE high_quality_chunks

\* the rows of a result whose similarities are sims, the ids being the ranks
Ranked(sims) == [i \in 1..Len(sims) |-> [id |-> i, similarity |-> sims[i]]]

----------------------------------------------------------------------------
(* Inputs *)

Q_EMPTY == <<>>
Q_SPACES == <<" "," "," "," ">>
Q_TWO == <<" "," ","h","i"," ">>
Q_THREE == <<" ","w","h","y"," ">>
Q_FOLLOW == <<"A","n","d"," ","U","b","e","r","?">>
Q_GUEST == <<"W","h","a","t"," ","d","i","d"," ","B","r","i","a","n"," ","C","h","e","s","k","y"," ","s","a","y"," ","a","b","o","u","t"," ","t","r","u","s","t","?">>
Q_AIRBNB == <<"W","h","a","t"," ","a","b","o","u","t"," ","A","i","r","b","n","b","'","s"," ","e","a","r","l","y"," ","g","r","o","w","t","h","?">>
Q_SHORT_GUEST == <<"L","e","n","n","y","'","s"," ","v","i","e","w"," ","o","n"," ","p","r","i","c","i","n","g">>
Q_GUEST_ONLY == <<"B","r","i","a","n"," ","C","h","e","s","k","y","'","s"," ","a","p","p","r","o","a","c","h">>
Q_LONG == <<"H","o","w"," ","t","o"," ","g","r","o","w"," ","a"," ","m","a","r","k","e","t","p","l","a","c","e"," ","f","a","s","t","?">>
Q_COMPARE == <<"C","o","m","p","a","r","e"," ","A","i","r","b","n","b"," ","v","s"," ","U","b","e","r">>
Q_DEFINE == <<"W","h","a","t"," ","i","s"," ","c","h","u","r","n","?">>

\* every query a request of the model carries
QUERIES == {Q_EMPTY, Q_SPACES, Q_TWO, Q_THREE, Q_FOLLOW, Q_GUEST,
            Q_AIRBNB, Q_SHORT_GUEST, Q_GUEST_ONLY, Q_LONG, Q_COMPARE, Q_DEFINE}

TOKEN_NONE == <<>>
TOKEN_SOME == <<"t","o","k">>

A_TEXT == <<"T","r","u","s","t"," ","c","o","m","p","o","u","n","d","s",".">>

\* what the collaborators of one request answer:
\*   verify     "pass", "reject" (success is false) or "error" (the call raises)
\*   log_ok     whether the insert into query_log succeeds
\*   embed_ok   whether the embedding call succeeds
\*   store      the similarities of the ranked rows of the store, or STORE_DOWN
\*   gen        the generated text, or GEN_FAIL
STORE_DOWN == <<-1>>
GEN_FAIL == <<"fail">>
GEN_ERROR_TEXT == <<"E","r","r","o","r",":"," ","t","i","m","e","o","u","t">>

S_WEAK == <<20, 10>>
S_TEN == <<90, 80, 70, 60, 55, 50, 45, 40, 38, 36>>
S_EIGHT == <<90, 80, 70, 60, 55, 50, 45, 40, 35, 20>>

\* the answers of the collaborators, those that change nothing left out:
\* after a failed call the later collaborators are not asked
IsCanonical(e) ==
    /\ e.verify # "pass" => ~e.log_ok /\ e.embed_ok /\ e.store = S_WEAK /\ e.gen = A_TEXT
    /\ ~e.embed_ok => e.store = S_WEAK /\ e.gen = A_TEXT
    /\ e.store = STORE_DOWN => e.gen = A_TEXT

Answers(verifies, logs, embeds, stores, gens) ==
    {e \in [verify : verifies, log_ok : logs, embed_ok : embeds, store : stores, gen : gens] :
        IsCanonical(e)}

\* the answers of collaborators nobody asks
NoAnswers == [verify |-> "pass", log_ok |-> FALSE, embed_ok |-> TRUE,
              store |-> S_WEAK, gen |-> A_TEXT]

\* ext as far as the calls of trace asked for it
Asked(ext, trace) ==
    LET called(call) == \E i \in 1..Len(trace) : trace[i] = call
    IN  [verify |-> IF called("verify_turnstile") THEN ext.verify ELSE NoAnswers.verify,
         log_ok |-> IF called("insert_query_log") THEN ext.log_ok ELSE NoAnswers.log_ok,
         embed_ok |-> IF called("embedding") THEN ext.embed_ok ELSE NoAnswers.embed_ok,
         store |-> IF called("vector_search") THEN ext.store ELSE NoAnswers.store,
         gen |-> IF called("generation") THEN ext.gen ELSE NoAnswers.gen]

AllAnswers == Answers({"pass", "reject", "error"}, BOOLEAN, BOOLEAN,
                      {S_TEN, S_WEAK, STORE_DOWN}, {A_TEXT, GEN_FAIL})

----------------------------------------------------------------------------
(* backend/main.py: search_with_answer and clear_conversation *)

DAILY_LIMIT == 10           \* check_rate_limit(ip, limit=10)
MIN_QUERY_LEN == 3
CONVERSATION_LIMIT == 5     \* len(session) >= 5
SESSION_KEEP == 5           \* session[-5:]
CONTEXT_TURNS == 2          \* session[-2:]
ANSWER_CUT == 250           \* qa['answer'][:250]
SHORT_QUERY_WORDS == 5      \* len(search_req.query.split()) < 5
GUEST_RESULT_LIMIT == 10
DEFAULT_RESULT_LIMIT == 5
PROMPT_CHUNKS == 7          \* chunks[:7]
RESPONSE_SOURCES == 5       \* high_quality_chunks[:5]
SESSION_TTL == Day          \* timedelta(hours=24)

NoBody == [none |-> TRUE]

\* the length taken of the query as sent
query_too_short_unstripped(query) == query = <<>> \/ Len(query) < MIN_QUERY_LEN

\* not search_req.query or len(search_req.query.strip()) < 3
query_too_short(query) == query = <<>> \/ Len(str_strip(query)) < MIN_QUERY_LEN

\* what search_with_answer and synthesize_answer compute from the text of the
\* query alone, tabulated over QUERIES; the operators below take the entry of
\* the query as their parameter text
classified ==
    [query \in QUERIES |->
        LET query_type == detect_query_type(query)
        IN  [too_short |-> query_too_short(query),
             words |-> word_count(query),
             query_type |-> query_type,
             detected_guest |-> IF query_type = "guest_specific"
                                THEN extract_guest_name(query) ELSE None,
             detected_topic |-> IF query_type = "guest_specific"
                                THEN extract_topic_from_guest_query(query) ELSE None]]

\* the comparison of the conversation limit taken strictly
conversation_full_strict(session) == Len(session) > CONVERSATION_LIMIT

conversation_full(session) == Len(session) >= CONVERSATION_LIMIT

\* the context that carries the answers whole
conversation_context_uncut(session) ==
    IF session = <<>> THEN None
    ELSE LET recent == LastN(session, CONTEXT_TURNS)
         IN  [i \in 1..Len(recent) |-> <<recent[i].query, recent[i].answer>>]

\* "Q: ...\nA: ..." of the last turns, as the list of <<query, answer[:250]>>
conversation_context_of(session) ==
    IF session = <<>> THEN None
    ELSE LET recent == LastN(session, CONTEXT_TURNS)
         IN  [i \in 1..Len(recent) |-> <<recent[i].query, Take(recent[i].answer, ANSWER_CUT)>>]

\* the carry-forward that also takes a query of exactly 5 words
carry_forward_inclusive(query, text, session) ==
    IF session # <<>> /\ text.words <= SHORT_QUERY_WORDS
    THEN session[Len(session)].query \o <<" ">> \o query
    ELSE query

\* search_query after the carry-forward: f"{recent[-1]['query']} {search_req.query}"
carry_forward(query, text, session) ==
    IF session # <<>> /\ text.words < SHORT_QUERY_WORDS
    THEN session[Len(session)].query \o <<" ">> \o query
    ELSE query

\* the search parameters whose topic does not replace a carried query
search_plan_topic_kept_out(query, text, session) ==
    LET carried == carry_forward(query, text, session)
        replaces == /\ text.query_type = "guest_specific"
                    /\ text.detected_topic # None /\ text.detected_topic # <<>>
                    /\ carried = query
    IN  [query_type |-> text.query_type,
         limit |-> IF text.query_type = "guest_specific"
                   THEN GUEST_RESULT_LIMIT ELSE DEFAULT_RESULT_LIMIT,
         filter_guest |-> text.detected_guest,
         search_query |-> IF replaces THEN text.detected_topic ELSE carried]

\* the query, limit and guest filter of the search
search_plan(query, text, session) ==
    LET carried == carry_forward(query, text, session)
        query_type == text.query_type
        detected_guest == text.detected_guest
        detected_topic == text.detected_topic
    IN  IF query_type = "guest_specific" /\ detected_topic # None /\ detected_topic # <<>>
        THEN [query_type |-> query_type, limit |-> GUEST_RESULT_LIMIT,
              filter_guest |-> detected_guest, search_query |-> detected_topic]
        ELSE IF query_type = "guest_specific"
        THEN [query_type |-> query_type, limit |-> GUEST_RESULT_LIMIT,
              filter_guest |-> detected_guest, search_query |-> carried]
        ELSE [query_type |-> query_type, limit |-> DEFAULT_RESULT_LIMIT,
              filter_guest |-> None, search_query |-> carried]

\* the prompt that takes every chunk it is given
build_prompt_all_chunks(text, chunks, conversation_context) ==
    [template |-> IF text.query_type \in {"guest_specific", "comparison"}
                  THEN text.query_type ELSE "general",
     guest_name |-> text.detected_guest,
     chunks |-> chunks,
     context |-> conversation_context]

\* the prompt without the override for comparisons
build_prompt_no_comparison(text, chunks, conversation_context) ==
    [template |-> IF text.query_type = "guest_specific" THEN "guest_specific" ELSE "general",
     guest_name |-> text.detected_guest,
     chunks |-> Take(chunks, PROMPT_CHUNKS),
     context |-> conversation_context]

\* synthesize_answer up to its call of the generation service: the template,
\* the guest it names, the chunks and the context it puts in the prompt
build_prompt(text, chunks, conversation_context) ==
    LET query_type == text.query_type
    IN  [template |-> IF query_type = "guest_specific" THEN "guest_specific"
                      ELSE IF query_type = "comparison" THEN "comparison"
                      ELSE "general",
         guest_name |-> text.detected_guest,
         chunks |-> Take(chunks, PROMPT_CHUNKS),
         context |-> conversation_context]

\* generate_query_embedding that swallows the failure of its call
generate_query_embedding_swallowing(embed_ok) == [raised |-> FALSE, attempts |-> 1]

\* generate_query_embedding that posts a second time when the first call fails
generate_query_embedding_retrying(embed_ok) ==
    IF embed_ok THEN [raised |-> FALSE, attempts |-> 1]
    ELSE [raised |-> TRUE, status |-> 500, detail |-> "Embedding failed: timeout",
          attempts |-> 2]

\* generate_query_embedding: one requests.post (attempts); the embedding comes
\* back, or the call fails and HTTPException(500, f"Embedding failed: {str(e)}")
\* is raised
generate_query_embedding(embed_ok) ==
    IF embed_ok THEN [raised |-> FALSE, attempts |-> 1]
    ELSE [raised |-> TRUE, status |-> 500, detail |-> "Embedding failed: timeout",
          attempts |-> 1]

\* synthesize_answer that answers a failed call with no text
synthesize_answer_silent(gen) == IF gen = GEN_FAIL THEN <<>> ELSE gen

\* synthesize_answer: the generated text, or the error text when the call fails
synthesize_answer(gen) == IF gen = GEN_FAIL THEN GEN_ERROR_TEXT ELSE gen

\* the sweep at the end of search_with_answer
clean_old_sessions(sessions, t) ==
    LET cutoff == t - SESSION_TTL
        Fresh(qa) == qa.timestamp > cutoff
    IN  [ip_addr \in DOMAIN sessions |-> SelectSeq(sessions[ip_addr], Fresh)]

\* an HTTPException, or an exception nobody catches (500): nothing further runs
Rejected(status, detail, trace, log, rows, plan) ==
    [status |-> status, detail |-> detail, body |-> NoBody, trace |-> trace,
     log |-> log, sessions |-> conversation_sessions, rows |-> rows,
     plan |-> plan, prompt |-> None]

\* search_with_answer for the request (ip, query, token) when its collaborators
\* answer ext: the response, the calls in their order (trace) and the state left
handle_search(ip, query, token, ext, text) ==
    LET log0 == query_log[ip]
        rows0 == db_query_log
        t_verify == IF token # <<>> THEN <<"verify_turnstile">> ELSE <<>>
        rate_check == check_rate_limit(log0, now, DAILY_LIMIT)
        t_rate == Append(t_verify, "check_rate_limit")
        rows1 == IF ext.log_ok THEN Append(rows0, [query |-> query, ip |-> ip]) ELSE rows0
        t_log == Append(t_rate, "insert_query_log")
        t_query == Append(t_log, "check_query")
        session == conversation_sessions[ip]
        t_conv == Append(t_query, "check_conversation")
        plan == search_plan(query, text, session)
        query_embedding == generate_query_embedding(ext.embed_ok)
        t_embed == t_conv \o [i \in 1..query_embedding.attempts |-> "embedding"]
        t_store == Append(t_embed, "vector_search")
        chunks == Take(Ranked(ext.store), plan.limit)
        high_quality_chunks == quality_filter(chunks)
        conversation_context == conversation_context_of(session)
        t_gen == Append(t_store, "generation")
        answer == synthesize_answer(ext.gen)
        appended == Append(session, [query |-> query, answer |-> answer, timestamp |-> now])
        stored == [conversation_sessions EXCEPT ![ip] = LastN(appended, SESSION_KEEP)]
    IN  IF token # <<>> /\ ext.verify = "reject"
        THEN Rejected(403, "Verification failed", t_verify, log0, rows0, None)
        ELSE IF token # <<>> /\ ext.verify = "error"
        THEN Rejected(500, "Internal Server Error", t_verify, log0, rows0, None)
        ELSE IF ~rate_check.allowed
        THEN Rejected(429, "Daily query limit reached", t_rate, rate_check.log, rows0, None)
        ELSE IF text.too_short
        THEN Rejected(400, "Query must be at least 3 characters", t_query,
                      rate_check.log, rows1, None)
        ELSE IF conversation_full(session)
        THEN Rejected(400, "Conversation limit reached (5 messages)", t_conv,
                      rate_check.log, rows1, None)
        ELSE IF query_embedding.raised
        THEN Rejected(query_embedding.status, query_embedding.detail, t_embed,
                      rate_check.log, rows1, plan)
        ELSE IF ext.store = STORE_DOWN
        THEN Rejected(500, "Internal Server Error", t_store, rate_check.log, rows1, plan)
        ELSE [status |-> 200, detail |-> "OK",
              body |-> [query |-> query,
                        answer |-> answer,
                        sources |-> Take(high_quality_chunks, RESPONSE_SOURCES),
                        total_results |-> Len(high_quality_chunks),
                        conversation_length |-> Len(appended),
                        is_followup |-> Len(appended) > 1,
                        queries_remaining |-> rate_check.queries_remaining],
              trace |-> Append(t_gen, "session_append"),
              log |-> rate_check.log,
              sessions |-> clean_old_sessions(stored, now),
              rows |-> rows1,
              plan |-> plan,
              prompt |-> build_prompt(text, high_quality_chunks, conversation_context)]

search_with_answer(ip, query, token, ext) ==
    handle_search(ip, query, token, ext, classified[query])

----------------------------------------------------------------------------
(* State machine *)

NoDenial == [at |-> -1, limit |-> -1]

NoFn == [name |-> "none", arg |-> <<>>, out |-> <<>>, done |-> TRUE]

Idle(op, ip) ==
    [op |-> op, ip |-> ip, query |-> <<>>, token |-> <<>>, limit |-> 0,
     status |-> 0, detail |-> "", body |-> NoBody, trace |-> <<>>,
     rate |-> [allowed |-> FALSE, queries_remaining |-> 0, queries_today |-> 0],
     plan |-> None, prompt |-> None, verify |-> "none", ext |-> NoAnswers,
     before |-> [window |-> 0, turns |-> 0]]

\* the process has started: the maps of both modules are empty
Started ==
    /\ now = 0
    /\ query_log = [c \in Clients |-> <<>>]
    /\ conversation_sessions = [c \in Clients |-> <<>>]
    /\ db_query_log = <<>>
    /\ admitted = [c \in Clients |-> <<>>]
    /\ denied = [c \in Clients |-> NoDenial]
    /\ served = 0
    /\ resp = Idle("start", NoClient)
    /\ reset_phase = [c \in Clients |-> "open"]

Init == Started /\ fn = NoFn

\* where a client stands after a request that gave r: a request rejected for
\* the conversation limit leaves it limited, an accepted one readmits it after
\* a reset, any other rejection leaves it where it was
CONVERSATION_LIMIT_DETAIL == "Conversation limit reached (5 messages)"

PhaseAfterSubmit(phase, r) ==
    IF r.status = 400 /\ r.detail = CONVERSATION_LIMIT_DETAIL THEN "limited"
    ELSE IF r.status = 200 THEN (IF phase = "reset" THEN "readmitted" ELSE "open")
    ELSE phase

\* where a client stands after it cleared its conversation
PhaseAfterClear(phase) == IF phase \in {"limited", "reset"} THEN "reset" ELSE "open"

\* the checks admitted at most 24 hours before t, as the clock alone tells
InWindow(times, t) ==
    LET Recent(ts) == t - ts < Day
    IN  SelectSeq(times, Recent)

\* time passes, up to the time last
TickTo(last) ==
    /\ now < last
    /\ now' = now + 1
    /\ admitted' = [c \in Clients |-> InWindow(admitted[c], now + 1)]
    /\ resp' = Idle("tick", NoClient)
    /\ UNCHANGED <<query_log, conversation_sessions, db_query_log, denied, served, fn,
                   reset_phase>>

Public(rate_check) ==
    [allowed |-> rate_check.allowed,
     queries_remaining |-> rate_check.queries_remaining,
     queries_today |-> rate_check.queries_today]

Tick == TickTo(MaxTime)

\* one call of rate_limiter.check_rate_limit
CheckRateLimit(ip, limit) ==
    LET rate_check == check_rate_limit(query_log[ip], now, limit)
    IN  /\ query_log' = [query_log EXCEPT ![ip] = rate_check.log]
        /\ admitted' = IF rate_check.allowed
                       THEN [admitted EXCEPT ![ip] = Append(@, now)] ELSE admitted
        /\ denied' = IF rate_check.allowed THEN denied
                     ELSE [denied EXCEPT ![ip] = [at |-> now, limit |-> limit]]
        /\ resp' = [Idle("check", ip) EXCEPT
                        !.limit = limit, !.rate = Public(rate_check),
                        !.trace = <<"check_rate_limit">>,
                        !.before = [window |-> Len(admitted[ip]), turns |-> 0]]
        /\ UNCHANGED <<now, conversation_sessions, db_query_log, served, fn, reset_phase>>

\* POST /search-with-answer
SubmitQuery(ip, query, token, ext) ==
    \* r is what the one run of the handler gives
    \E r \in {search_with_answer(ip, query, token, ext)} :
    LET checked == "check_rate_limit" \in Range(r.trace)
        rate_check == check_rate_limit(query_log[ip], now, DAILY_LIMIT)
    IN  /\ token = TOKEN_NONE => ext.verify = "pass"
        /\ ext.log_ok => Len(db_query_log) < MaxRows
        /\ query_log' = [query_log EXCEPT ![ip] = r.log]
        /\ conversation_sessions' = r.sessions
        /\ db_query_log' = r.rows
        /\ admitted' = IF checked /\ rate_check.allowed
                       THEN [admitted EXCEPT ![ip] = Append(@, now)] ELSE admitted
        /\ denied' = IF checked /\ ~rate_check.allowed
                     THEN [denied EXCEPT ![ip] = [at |-> now, limit |-> DAILY_LIMIT]]
                     ELSE denied
        /\ resp' = [op |-> "submit", ip |-> ip, query |-> query, token |-> token,
                    limit |-> DAILY_LIMIT, status |-> r.status, detail |-> r.detail,
                    body |-> r.body, trace |-> r.trace,
                    rate |-> IF checked THEN Public(rate_check) ELSE Idle("", ip).rate,
                    plan |-> r.plan, prompt |-> r.prompt,
                    verify |-> IF token = TOKEN_NONE THEN "none" ELSE ext.verify,
                    ext |-> Asked(ext, r.trace),
                    before |-> [window |-> Len(admitted[ip]),
                                turns |-> Len(conversation_sessions[ip])]]
        /\ reset_phase' = [reset_phase EXCEPT ![ip] = PhaseAfterSubmit(@, r)]
        /\ UNCHANGED <<now, fn>>

\* a reset that empties every client's session
clear_conversation_everywhere(ip) ==
    /\ conversation_sessions' = [c \in Clients |-> <<>>]
    /\ resp' = [Idle("clear", ip) EXCEPT !.status = 200, !.detail = "cleared",
                    !.before = [window |-> Len(admitted[ip]),
                                turns |-> Len(conversation_sessions[ip])]]
    /\ reset_phase' = [reset_phase EXCEPT ![ip] = PhaseAfterClear(@)]
    /\ UNCHANGED <<now, query_log, db_query_log, admitted, denied, served, fn>>

\* POST /clear-conversation
clear_conversation(ip) ==
    /\ conversation_sessions' = [conversation_sessions EXCEPT ![ip] = <<>>]
    /\ resp' = [Idle("clear", ip) EXCEPT !.status = 200, !.detail = "cleared",
                    !.before = [window |-> Len(admitted[ip]),
                                turns |-> Len(conversation_sessions[ip])]]
    /\ reset_phase' = [reset_phase EXCEPT ![ip] = PhaseAfterClear(@)]
    /\ UNCHANGED <<now, query_log, db_query_log, admitted, denied, served, fn>>

\* Spec: the API with two clients and every answer of every collaborator, up
\* to MaxRequests search requests
Submit ==
    /\ served < MaxRequests
    /\ served' = served + 1
    /\ \E ip \in Clients, query \in {Q_SPACES, Q_FOLLOW, Q_GUEST},
          token \in {TOKEN_NONE, TOKEN_SOME}, ext \in AllAnswers :
            SubmitQuery(ip, query, token, ext)

Clear == \E ip \in Clients : clear_conversation(ip)

Next == Tick \/ Submit \/ Clear

Spec == Init /\ [][Next]_vars

\* SpecRL: check_rate_limit on its own, under one limit, any up to MaxLimit
InitRL ==
    /\ Started
    /\ \E limit \in 0..MaxLimit :
          fn = [name |-> "check_rate_limit", arg |-> limit, out |-> <<>>, done |-> TRUE]

Check ==
    /\ \E ip \in Clients : CheckRateLimit(ip, fn.arg)
    /\ UNCHANGED served

NextRL == Tick \/ Check

SpecRL == InitRL /\ [][NextRL]_vars

\* SpecLong: one client, as many requests as the clock allows, so that
\* conversations and quotas fill up; the embedding service, the store and the
\* generation service answer, the table query_log takes no row
LongClients == {"c1"}
LongAnswers == Answers({"pass", "reject"}, {FALSE}, {TRUE}, {S_WEAK}, {A_TEXT})

LongSubmit ==
    /\ \E ip \in LongClients, query \in {Q_EMPTY, Q_TWO, Q_THREE},
          token \in {TOKEN_NONE, TOKEN_SOME}, ext \in LongAnswers :
            SubmitQuery(ip, query, token, ext)
    /\ UNCHANGED served

LongClear == \E ip \in LongClients : clear_conversation(ip)

\* one day passes: what was recorded at the start expires at the end
LongTick == TickTo(Day)

NextLong == LongTick \/ LongSubmit \/ LongClear

SpecLong == Init /\ [][NextLong]_vars

\* SpecReset: no time passes; one client asks until its conversation and its
\* quota are full and resets now and then, the other client asks up to
\* MaxRequests questions, so that it holds turns and quota of its own
ResetSubmit ==
    /\ \E query \in {Q_TWO, Q_THREE}, token \in {TOKEN_NONE, TOKEN_SOME}, ext \in LongAnswers :
            SubmitQuery("c1", query, token, ext)
    /\ UNCHANGED served

OtherSubmit ==
    /\ served < MaxRequests
    /\ served' = served + 1
    /\ \E ext \in LongAnswers : SubmitQuery("c2", Q_THREE, TOKEN_NONE, ext)

NextReset == ResetSubmit \/ OtherSubmit \/ Clear

SpecReset == Init /\ [][NextReset]_vars

\* SpecContext: one client builds conversations of short and long answers,
\* with short, long and guest questions, up to MaxAsked of them, and resets
\* them; no time passes
A_LONG == [i \in 1..(ANSWER_CUT + LongBy) |-> IF i <= ANSWER_CUT THEN "a" ELSE "z"]

ContextAnswers == Answers({"pass"}, {FALSE}, {TRUE}, {S_WEAK}, {A_TEXT, A_LONG})

ContextSubmit ==
    /\ served < MaxAsked
    /\ served' = served + 1
    /\ \E ip \in LongClients, query \in {Q_FOLLOW, Q_LONG, Q_GUEST}, ext \in ContextAnswers :
            SubmitQuery(ip, query, TOKEN_NONE, ext)

NextContext == ContextSubmit \/ LongClear

SpecContext == Init /\ [][NextContext]_vars

\* SpecTemplate: two clients ask up to MaxRequests questions, one of every
\* intent among them; every collaborator answers
TEMPLATE_QUERIES == {Q_FOLLOW, Q_GUEST, Q_SHORT_GUEST, Q_LONG, Q_COMPARE, Q_DEFINE}
TemplateAnswers == Answers({"pass"}, {FALSE}, {TRUE}, {S_WEAK, S_EIGHT, S_TEN}, {A_TEXT})

TemplateSubmit ==
    /\ served < MaxRequests
    /\ served' = served + 1
    /\ \E ip \in Clients, query \in TEMPLATE_QUERIES, ext \in TemplateAnswers :
            SubmitQuery(ip, query, TOKEN_NONE, ext)

NextTemplate == TemplateSubmit

SpecTemplate == Init /\ [][NextTemplate]_vars

\* SpecDecay: a client fills its conversation while another asks now and then,
\* and the clock runs past 24 hours; up to MaxDecay requests in all, every
\* collaborator answers, nobody resets
DecayAnswers == Answers({"pass"}, {FALSE}, {TRUE}, {S_WEAK}, {A_TEXT})

DecaySubmit ==
    /\ served < MaxDecay
    /\ served' = served + 1
    /\ \E ip \in Clients, ext \in DecayAnswers : SubmitQuery(ip, Q_FOLLOW, TOKEN_NONE, ext)

NextDecay == Tick \/ DecaySubmit

SpecDecay == Init /\ [][NextDecay]_vars

\* SpecFail: well-formed requests of two clients while the embedding service,
\* the store and the generation service answer or fail; up to MaxRequests
\* requests
FailAnswers == Answers({"pass"}, {FALSE}, BOOLEAN, {S_TEN, S_WEAK, STORE_DOWN},
                       {A_TEXT, GEN_FAIL})

FailSubmit ==
    /\ served < MaxRequests
    /\ served' = served + 1
    /\ \E ip \in Clients, query \in {Q_FOLLOW, Q_GUEST}, ext \in FailAnswers :
            SubmitQuery(ip, query, TOKEN_NONE, ext)

NextFail == Tick \/ FailSubmit

SpecFail == Init /\ [][NextFail]_vars

----------------------------------------------------------------------------
(* The pure functions on their own: Init draws the input, the one action
   applies the function *)

SIM_VALUES == {5, 10, 20, 35, 36, 40, 50}

RECURSIVE Descending(_, _)
\* the lists of at most n values of vals in descending order: what a store
\* that orders by distance can return
Descending(vals, n) ==
    IF n = 0 THEN {<<>>}
    ELSE LET shorter == Descending(vals, n - 1)
             longest == {s \in shorter : Len(s) = n - 1}
             Below(s) == {v \in vals : s = <<>> \/ v <= s[Len(s)]}
         IN  shorter \cup UNION {{Append(s, v) : v \in Below(s)} : s \in longest}

GateInputs == {Ranked(s) : s \in Descending(SIM_VALUES, MaxChunks)}

InitGate ==
    /\ Started
    /\ \E chunks \in GateInputs :
          fn = [name |-> "quality_filter", arg |-> chunks, out |-> <<>>, done |-> FALSE]

ApplyGate ==
    /\ fn.name = "quality_filter" /\ ~fn.done
    /\ fn' = [fn EXCEPT !.out = quality_filter(fn.arg), !.done = TRUE]
    /\ UNCHANGED <<now, query_log, conversation_sessions, db_query_log, admitted, denied,
                   served, resp, reset_phase>>

NextGate == ApplyGate

SpecGate == InitGate /\ [][NextGate]_vars

\* the phrases the queries given to detect_query_type are made of
PHRASES == {<<"w","h","a","t"," ","d","i","d">>, <<"W","h","a","t"," ","i","s">>, <<"H","o","w"," ","t","o">>, <<"L","e","n","n","y","'","s"," ","a","p","p","r","o","a","c","h">>,
            <<"B","r","i","a","n"," ","s","a","y">>, <<"c","o","m","p","a","r","e">>}

Q_PRECEDENCE == <<"W","h","a","t"," ","i","s"," ","L","e","n","n","y","'","s"," ","a","p","p","r","o","a","c","h"," ","t","o"," ","c","o","m","p","a","r","e"," ","f","r","a","m","e","w","o","r","k","s","?">>

RECURSIVE Join(_)
\* " ".join(parts)
Join(parts) ==
    IF parts = <<>> THEN <<>>
    ELSE IF Len(parts) = 1 THEN parts[1]
    ELSE parts[1] \o <<" ">> \o Join(Tail(parts))

ClassifyInputs ==
    {Q_PRECEDENCE} \cup
    {Join(parts) : parts \in UNION {[1..n -> PHRASES] : n \in 0..MaxWords}}

InitClassify ==
    /\ Started
    /\ \E query \in ClassifyInputs :
          fn = [name |-> "detect_query_type", arg |-> query, out |-> <<>>, done |-> FALSE]

ApplyClassify ==
    /\ fn.name = "detect_query_type" /\ ~fn.done
    /\ fn' = [fn EXCEPT !.out = detect_query_type(fn.arg), !.done = TRUE]
    /\ UNCHANGED <<now, query_log, conversation_sessions, db_query_log, admitted, denied,
                   served, resp, reset_phase>>

NextClassify == ApplyClassify

SpecClassify == InitClassify /\ [][NextClassify]_vars

\* SpecExtract: extract_guest_name and extract_topic_from_guest_query on the
\* queries "What did NAME say about TOPIC?", TOPIC of at most MaxWords parts
NAMES == {<<"B","r","i","a","n"," ","C","h","e","s","k","y">>, <<"L","e","n","n","y">>}
TOPIC_PARTS == {<<"t","r","u","s","t">>, <<"g","r","o","w","t","h">>, <<"w","h","a","t"," ","f","o","u","n","d","e","r","s"," ","t","h","i","n","k">>}
TOPIC_ENDS == {<<>>, <<".">>}

ExtractInputs ==
    {[query |-> <<"W","h","a","t"," ","d","i","d"," ">> \o name \o <<" ","s","a","y"," ","a","b","o","u","t"," ">> \o Join(parts) \o end \o <<"?">>,
      name |-> name,
      topic |-> Join(parts)] :
        name \in NAMES,
        parts \in UNION {[1..n -> TOPIC_PARTS] : n \in 1..MaxWords},
        end \in TOPIC_ENDS}

InitExtract ==
    /\ Started
    /\ \E input \in ExtractInputs :
          fn = [name |-> "extract", arg |-> input, out |-> <<>>, done |-> FALSE]

ApplyExtract ==
    /\ fn.name = "extract" /\ ~fn.done
    /\ fn' = [fn EXCEPT !.out = [guest |-> extract_guest_name(fn.arg.query),
                                 topic |-> extract_topic_from_guest_query(fn.arg.query)],
                        !.done = TRUE]
    /\ UNCHANGED <<now, query_log, conversation_sessions, db_query_log, admitted, denied,
                   served, resp, reset_phase>>

NextExtract == ApplyExtract

SpecExtract == InitExtract /\ [][NextExtract]_vars

\* SpecName: extract_guest_name on its own, on queries LEAD NAME TAIL whose
\* name is written with and without capitals
NAME_LEADS == {<<"w","h","a","t"," ","d","i","d">>, <<"W","h","a","t"," ","d","o","e","s">>, <<"W","h","a","t"," ","i","s">>, <<"a","c","c","o","r","d","i","n","g"," ","t","o">>, <<>>}
NAME_WORDS == {<<"b","r","i","a","n"," ","c","h","e","s","k","y">>, <<"B","r","i","a","n"," ","C","h","e","s","k","y">>, <<"b","r","i","a","n"," ","C","h","e","s","k","y">>, <<"B","r","i","a","n"," ","c","h","e","s","k","y">>,
               <<"L","e","n","n","y">>, <<"l","e","n","n","y">>}
NAME_TAILS == {<<" ","s","a","y"," ","a","b","o","u","t"," ","t","r","u","s","t">>, <<"'","s"," ","a","p","p","r","o","a","c","h">>, <<"'","s"," ","v","i","e","w"," ","o","n"," ","p","r","i","c","i","n","g">>, <<" ","o","n"," ","g","r","o","w","t","h">>}

NameInputs ==
    {[query |-> (IF lead = <<>> THEN <<>> ELSE lead \o <<" ">>) \o name \o tail,
      lead |-> lead, name |-> name] :
        lead \in NAME_LEADS, name \in NAME_WORDS, tail \in NAME_TAILS}

InitName ==
    /\ Started
    /\ \E input \in NameInputs :
          fn = [name |-> "extract_guest_name", arg |-> input, out |-> <<>>, done |-> FALSE]

ApplyName ==
    /\ fn.name = "extract_guest_name" /\ ~fn.done
    /\ fn' = [fn EXCEPT !.out = extract_guest_name(fn.arg.query), !.done = TRUE]
    /\ UNCHANGED <<now, query_log, conversation_sessions, db_query_log, admitted, denied,
                   served, resp, reset_phase>>

NextName == ApplyName

SpecName == InitName /\ [][NextName]_vars

\* SpecPlan: the search parameters of search_with_answer on their own, for a
\* query and a session of at most MaxTurns turns
PLAN_QUERIES == {Q_FOLLOW, Q_GUEST, Q_AIRBNB, Q_SHORT_GUEST, Q_GUEST_ONLY, Q_LONG}
TURN_QUERIES == {Q_AIRBNB, Q_FOLLOW, Q_GUEST}

PlanSessions ==
    UNION {[1..n -> {[query |-> q, answer |-> A_TEXT, timestamp |-> 0] : q \in TURN_QUERIES}] :
              n \in 0..MaxTurns}

InitPlan ==
    /\ Started
    /\ \E query \in PLAN_QUERIES, session \in PlanSessions :
          fn = [name |-> "search_plan", arg |-> [query |-> query, session |-> session],
                out |-> <<>>, done |-> FALSE]

ApplyPlan ==
    /\ fn.name = "search_plan" /\ ~fn.done
    /\ fn' = [fn EXCEPT !.out = search_plan(fn.arg.query, classified[fn.arg.query],
                                            fn.arg.session),
                        !.done = TRUE]
    /\ UNCHANGED <<now, query_log, conversation_sessions, db_query_log, admitted, denied,
                   served, resp, reset_phase>>

NextPlan == ApplyPlan

SpecPlan == InitPlan /\ [][NextPlan]_vars

----------------------------------------------------------------------------
(* Properties of the rate limiter and of search_with_answer *)

\* the client errors of the API
CLIENT_ERRORS == {400, 403, 429}

\* the calls search_with_answer makes to services outside the process
COLLABORATOR_CALLS == {"verify_turnstile", "insert_query_log", "embedding",
                       "vector_search", "generation"}

\* C1: once at least `limit` checks of a client were admitted within the last
\* 24 hours, the next check of that client is denied, and the search request
\* that made the check is answered 429 and leaves the client's session as it was.
C1_ExhaustedQuotaDenies ==
    [][(/\ resp'.op = "submit"
        /\ "check_rate_limit" \in Range(resp'.trace)
        /\ Len(admitted[resp'.ip]) >= resp'.limit)
       => (/\ ~resp'.rate.allowed
           /\ resp'.status = 429
           /\ conversation_sessions'[resp'.ip] = conversation_sessions[resp'.ip])]_vars

C1_Witness ==
    /\ resp.op = "submit"
    /\ resp.before.window >= resp.limit
    /\ resp.limit = DAILY_LIMIT
    /\ ~resp.rate.allowed
    /\ resp.status = 429
    /\ Len(conversation_sessions[resp.ip]) = resp.before.turns

\* C2: every stored session holds at most 5 turns, and a search request that
\* finds 5 turns in its client's session is rejected before the embedding call,
\* the vector search and the generation call.
C2_SessionAtMostFive ==
    /\ \A c \in Clients : Len(conversation_sessions[c]) <= 5
    /\ (resp.op = "submit" /\ resp.before.turns >= 5)
       => /\ resp.status \in CLIENT_ERRORS
          /\ Range(resp.trace) \cap {"embedding", "vector_search", "generation"} = {}
          /\ Len(conversation_sessions[resp.ip]) = resp.before.turns

C2_Witness ==
    /\ resp.op = "submit"
    /\ resp.before.turns = 5
    /\ resp.status = 400
    /\ resp.detail = "Conversation limit reached (5 messages)"
    /\ Len(conversation_sessions[resp.ip]) = 5

\* C3: a check that finds count timestamps left after trimming returns
\* allowed=false and queries_remaining=0 and records nothing when
\* count >= limit; otherwise it records exactly the one timestamp now and
\* returns allowed=true with queries_remaining = limit - count - 1, which is
\* never negative.
C3_CheckContract ==
    [][resp'.op = "check" =>
        LET ip == resp'.ip
            limit == resp'.limit
            kept == InWindow(query_log[ip], now)
            count == Len(kept)
        IN  IF count >= limit
            THEN /\ ~resp'.rate.allowed
                 /\ resp'.rate.queries_remaining = 0
                 /\ query_log'[ip] = kept
            ELSE /\ resp'.rate.allowed
                 /\ resp'.rate.queries_remaining = limit - count - 1
                 /\ resp'.rate.queries_remaining >= 0
                 /\ query_log'[ip] = Append(kept, now)]_vars

C3_Witness ==
    /\ resp.op = "check"
    /\ resp.limit >= 2
    /\ resp.rate.allowed
    /\ resp.rate.queries_remaining = 0
    /\ Len(query_log[resp.ip]) = resp.limit
    /\ query_log[resp.ip][resp.limit] = now

\* C4: under a fixed limit a check at time t is admitted if and only if fewer
\* than limit of the client's earlier checks were admitted in the 24 hours
\* before t; so a denied client is admitted again, with no reset, once enough
\* of its admitted timestamps are 24 hours old.
C4_SlidingWindow ==
    resp.op = "check" => (resp.rate.allowed <=> resp.before.window < resp.limit)

C4_Witness ==
    /\ resp.op = "check"
    /\ resp.limit >= 2
    /\ resp.rate.allowed
    /\ denied[resp.ip].limit = resp.limit
    /\ denied[resp.ip].at >= 0
    /\ denied[resp.ip].at < now
    /\ Len(query_log[resp.ip]) = resp.limit
    /\ query_log[resp.ip][1] < now

\* the three reasons the specification gives for rejecting a search request
C5_StatedReasons ==
    \/ resp.query = <<>>
    \/ Len(str_strip(resp.query)) < 3
    \/ resp.before.window >= 10
    \/ resp.before.turns >= 5

\* the fields of a success response
C5_Fields == {"query", "answer", "sources", "total_results", "conversation_length",
              "is_followup", "queries_remaining"}

\* C5 as stated: a search request is rejected with a client error exactly when
\* the query is empty or shorter than 3 characters after trimming, or the quota
\* is exhausted, or the session holds 5 turns; otherwise (no collaborator
\* failing) the response carries the seven fields.
C5_AsStated ==
    resp.op = "submit" =>
        /\ (resp.status \in CLIENT_ERRORS) <=> C5_StatedReasons
        /\ ~C5_StatedReasons => resp.status = 200 /\ DOMAIN resp.body = C5_Fields

\* C5, amended: a search request is rejected with a client error exactly when
\* the verification service rejects the token it carries, or the query is empty
\* or shorter than 3 characters after trimming, or the quota is exhausted, or
\* the session holds 5 turns; otherwise (no collaborator failing) the response
\* carries the seven fields.
C5_RejectedExactlyWhen ==
    resp.op = "submit" =>
        LET reasons == resp.verify = "reject" \/ C5_StatedReasons
        IN  /\ (resp.status \in CLIENT_ERRORS) <=> reasons
            /\ ~reasons => resp.status = 200 /\ DOMAIN resp.body = C5_Fields

C5_Witness ==
    /\ resp.op = "submit"
    /\ resp.verify = "reject"
    /\ ~C5_StatedReasons
    /\ resp.status = 403
    /\ resp.detail = "Verification failed"

\* C6 as stated: in every search request the quota check and the
\* conversation-length check are both done before any call to a collaborator
\* (verification, query-log insert, embedding, vector search, generation), so a
\* request one of the two checks rejects has called no collaborator.
C6_ChecksBeforeCollaborators ==
    resp.op = "submit" =>
        \A i \in 1..Len(resp.trace) :
            resp.trace[i] \in COLLABORATOR_CALLS =>
                /\ \E j \in 1..(i - 1) : resp.trace[j] = "check_rate_limit"
                /\ \E k \in 1..(i - 1) : resp.trace[k] = "check_conversation"

\* C7 as stated: a search request rejected as a client error (query too short,
\* conversation limit reached, quota exceeded) leaves the client's quota
\* timestamps, every session and the query log as they were.
C7_RejectionChangesNothing ==
    [][(resp'.op = "submit" /\ resp'.status \in {400, 429})
       => (/\ query_log' = query_log
           /\ conversation_sessions' = conversation_sessions
           /\ db_query_log' = db_query_log)]_vars

----------------------------------------------------------------------------
(* Properties of the quality filter and of detect_query_type *)

Similarities(chunks) == [i \in 1..Len(chunks) |-> chunks[i].similarity]

\* C8: the gated set is the chunks of similarity above 0.35, in rank order,
\* when at least 3 of them pass, and otherwise the first 3 chunks by rank (all
\* of them when fewer than 3 were returned); so it is not empty when the search
\* returns a chunk, and has at least 3 chunks when the search returns 3.
C8_QualityGate ==
    (fn.name = "quality_filter" /\ fn.done) =>
        LET chunks == fn.arg
            out == fn.out
            passing == {i \in 1..Len(chunks) : chunks[i].similarity > 35}
            kept == IF Cardinality(passing) >= 3 THEN passing
                    ELSE {i \in 1..Len(chunks) : i <= 3}
        IN  /\ {out[k].id : k \in 1..Len(out)} = kept
            /\ Len(out) = Cardinality(kept)
            /\ \A k \in 1..Len(out) : out[k] = chunks[out[k].id]
            /\ \A k \in 1..(Len(out) - 1) : out[k].id < out[k + 1].id
            /\ Len(chunks) >= 1 => Len(out) >= 1
            /\ Len(chunks) >= 3 => Len(out) >= 3

C8_Witness ==
    /\ fn.name = "quality_filter" /\ fn.done
    /\ Len(fn.arg) = 5
    /\ Len(fn.out) = 4
    /\ fn.arg[5].similarity <= 35

\* C9 as stated: similarities [0.5, 0.4, 0.1, 0.05] give the first two chunks;
\* similarities [0.2, 0.1, 0.05] give all three.
C9_AsStated ==
    (fn.name = "quality_filter" /\ fn.done) =>
        /\ Similarities(fn.arg) = <<50, 40, 10, 5>> => fn.out = Take(fn.arg, 2)
        /\ Similarities(fn.arg) = <<20, 10, 5>> => fn.out = fn.arg

\* C9, amended: similarities [0.5, 0.4, 0.1, 0.05] give the first three chunks,
\* since only two pass the threshold and the fallback applies; similarities
\* [0.2, 0.1, 0.05] give all three.
C9_FallbackExamples ==
    (fn.name = "quality_filter" /\ fn.done) =>
        /\ Similarities(fn.arg) = <<50, 40, 10, 5>> => fn.out = Take(fn.arg, 3)
        /\ Similarities(fn.arg) = <<20, 10, 5>> => fn.out = fn.arg

C9_Witness ==
    /\ fn.name = "quality_filter" /\ fn.done
    /\ Similarities(fn.arg) = <<50, 40, 10, 5>>
    /\ Similarities(fn.out) = <<50, 40, 10>>

\* C10: a query with a guest-indicator phrase and an extractable guest name is
\* guest_specific, also when it holds a comparison keyword or starts with a
\* how-to or definition phrase, as "What is Lenny's approach to compare
\* frameworks?" does; with an indicator phrase and no extractable name the
\* later rules decide.
C10_GuestRuleFirst ==
    (fn.name = "detect_query_type" /\ fn.done) =>
        LET query == fn.arg
            q == str_lower(query)
            indicator == \E phrase \in GUEST_PHRASES : Contains(q, phrase)
            name == extract_guest_name(query)
            extractable == name # None /\ name # <<>>
            later == IF \E w \in COMPARISON_WORDS : Contains(q, w) THEN "comparison"
                     ELSE IF \E p \in HOWTO_PREFIXES : StartsWith(q, p) THEN "how_to"
                     ELSE IF \E p \in DEFINITION_PREFIXES : StartsWith(q, p) THEN "definition"
                     ELSE "general"
        IN  /\ (indicator /\ extractable) => fn.out = "guest_specific"
            /\ (indicator /\ ~extractable) => fn.out = later
            /\ query = Q_PRECEDENCE => fn.out = "guest_specific"

C10_Witness ==
    /\ fn.name = "detect_query_type" /\ fn.done
    /\ fn.arg = Q_PRECEDENCE
    /\ \E w \in COMPARISON_WORDS : Contains(str_lower(fn.arg), w)
    /\ \E p \in DEFINITION_PREFIXES : StartsWith(str_lower(fn.arg), p)
    /\ fn.out = "guest_specific"

\* C11 as stated: for "What did NAME say about TOPIC?", NAME one or more
\* capitalized words, guest extraction gives exactly NAME and topic extraction
\* gives exactly TOPIC without its trailing punctuation; "What did Brian Chesky
\* say about trust?" gives "Brian Chesky" and "trust".
C11_ExtractsNameAndTopic ==
    (fn.name = "extract" /\ fn.done) =>
        /\ fn.out.guest = fn.arg.name
        /\ fn.out.topic = fn.arg.topic
        /\ fn.arg.query = Q_GUEST => fn.out = [guest |-> <<"B","r","i","a","n"," ","C","h","e","s","k","y">>, topic |-> <<"t","r","u","s","t">>]

\* the guest-specific topic rule applies to the query: its intent is
\* guest_specific and a topic is extracted from it
TopicRuleApplies(query) ==
    /\ detect_query_type(query) = "guest_specific"
    /\ extract_topic_from_guest_query(query) \notin {None, <<>>}

\* C12 as stated: with a prior turn and fewer than 5 words the effective query
\* is the last turn's query, a space and the raw query; with an empty session
\* or 5 or more words it is the raw query unless the topic rule replaces it.
C12_AsStated ==
    (fn.name = "search_plan" /\ fn.done) =>
        LET query == fn.arg.query
            session == fn.arg.session
            short == word_count(query) < 5
        IN  /\ (session # <<>> /\ short) =>
                fn.out.search_query = session[Len(session)].query \o <<" ">> \o query
            /\ (session = <<>> \/ ~short) =>
                (fn.out.search_query = query \/ TopicRuleApplies(query))

\* C12, amended: unless the guest-specific topic rule replaces it, the
\* effective query is the last turn's query, a space and the raw query when the
\* session has a prior turn and the raw query has fewer than 5 words, and the
\* raw query otherwise; "What about Airbnb's early growth?" followed by
\* "And Uber?" gives "What about Airbnb's early growth? And Uber?".
C12_CarryForward ==
    (fn.name = "search_plan" /\ fn.done) =>
        LET query == fn.arg.query
            session == fn.arg.session
            short == word_count(query) < 5
        IN  /\ (~TopicRuleApplies(query) /\ session # <<>> /\ short) =>
                fn.out.search_query = session[Len(session)].query \o <<" ">> \o query
            /\ (~TopicRuleApplies(query) /\ (session = <<>> \/ ~short)) =>
                fn.out.search_query = query
            /\ (query = Q_FOLLOW /\ session # <<>> /\ session[Len(session)].query = Q_AIRBNB) =>
                fn.out.search_query = <<"W","h","a","t"," ","a","b","o","u","t"," ","A","i","r","b","n","b","'","s"," ","e","a","r","l","y"," ","g","r","o","w","t","h","?"," ","A","n","d"," ","U","b","e","r","?">>

C12_Witness ==
    /\ fn.name = "search_plan" /\ fn.done
    /\ fn.arg.query = Q_FOLLOW
    /\ Len(fn.arg.session) = 2
    /\ fn.arg.session[2].query = Q_AIRBNB
    /\ fn.out.search_query = <<"W","h","a","t"," ","a","b","o","u","t"," ","A","i","r","b","n","b","'","s"," ","e","a","r","l","y"," ","g","r","o","w","t","h","?"," ","A","n","d"," ","U","b","e","r","?">>

\* C13: a guest_specific query is searched with limit 10 and the extracted
\* guest name as filter, and with the topic alone as search query when a topic
\* was extracted, whatever the question and the carry-forward; every other
\* intent is searched with limit 5, no filter, and no topic replacing the query.
C13_SearchParameters ==
    (fn.name = "search_plan" /\ fn.done) =>
        LET query == fn.arg.query
            session == fn.arg.session
            topic == extract_topic_from_guest_query(query)
        IN  IF detect_query_type(query) = "guest_specific"
            THEN /\ fn.out.limit = 10
                 /\ fn.out.filter_guest = extract_guest_name(query)
                 /\ fn.out.filter_guest # None
                 /\ topic \notin {None, <<>>} => fn.out.search_query = topic
            ELSE /\ fn.out.limit = 5
                 /\ fn.out.filter_guest = None
                 /\ \/ fn.out.search_query = query
                    \/ /\ session # <<>>
                       /\ fn.out.search_query = session[Len(session)].query \o <<" ">> \o query

C13_Witness ==
    /\ fn.name = "search_plan" /\ fn.done
    /\ fn.arg.query = Q_SHORT_GUEST
    /\ fn.arg.session # <<>>
    /\ fn.out.limit = 10
    /\ fn.out.filter_guest = <<"L","e","n","n","y">>
    /\ fn.out.search_query = <<"p","r","i","c","i","n","g">>

\* C14: when the generation call fails the request does not fail: the response
\* is well-formed, its answer is an error text, and its sources are the gated
\* chunks a successful generation would have come with.
C14_GenerationFailureDegrades ==
    [][(/\ resp'.op = "submit"
        /\ "generation" \in Range(resp'.trace)
        /\ resp'.ext.gen = GEN_FAIL)
       => LET good == search_with_answer(resp'.ip, resp'.query, resp'.token,
                                         [resp'.ext EXCEPT !.gen = A_TEXT])
          IN  /\ resp'.status = 200
              /\ DOMAIN resp'.body = C5_Fields
              /\ StartsWith(resp'.body.answer, <<"E","r","r","o","r",":"," ">>)
              /\ good.status = 200
              /\ good.body.answer = A_TEXT
              /\ resp'.body.sources = good.body.sources
              /\ resp'.body.total_results = good.body.total_results]_vars

C14_Witness ==
    /\ resp.op = "submit"
    /\ resp.ext.gen = GEN_FAIL
    /\ resp.status = 200
    /\ StartsWith(resp.body.answer, <<"E","r","r","o","r",":"," ">>)
    /\ Len(resp.body.sources) = 5
    /\ resp.body.total_results = 10

\* C15: when the embedding call fails the request fails with an explicit
\* service error; it makes no vector search and no generation call, and no
\* session gains a turn.
C15_EmbeddingFailureIsFatal ==
    [][(/\ resp'.op = "submit"
        /\ "embedding" \in Range(resp'.trace)
        /\ ~resp'.ext.embed_ok)
       => (/\ resp'.status = 500
           /\ resp'.detail = "Embedding failed: timeout"
           /\ resp'.body = NoBody
           /\ Range(resp'.trace) \cap {"vector_search", "generation", "session_append"} = {}
           /\ conversation_sessions' = conversation_sessions)]_vars

C15_Witness ==
    /\ resp.op = "submit"
    /\ ~resp.ext.embed_ok
    /\ resp.trace[Len(resp.trace)] = "embedding"
    /\ resp.status = 500
    /\ resp.before.turns = 1
    /\ Len(conversation_sessions[resp.ip]) = 1

\* C16 as stated: the conversation_length of an accepted request is the number
\* of turns the client's session holds once the request has completed (after
\* the append, the trim to 5 and the expiry sweep), and is between 1 and 5.
C16_LengthIsStoredLength ==
    (resp.op = "submit" /\ resp.status = 200) =>
        /\ resp.body.conversation_length = Len(conversation_sessions[resp.ip])
        /\ resp.body.conversation_length >= 1
        /\ resp.body.conversation_length <= 5

\* C17: a reset empties the session of the client that asked for it and leaves
\* every other session, every quota and the query-log table as they were; a
\* client that was rejected for the conversation limit and has reset since is
\* accepted on its next valid, verified query that the quota admits, as the
\* first turn of a new conversation, not as a follow-up.
C17_ResetFrameAndReadmission ==
    [][/\ resp'.op = "clear" =>
            /\ conversation_sessions' = [conversation_sessions EXCEPT ![resp'.ip] = <<>>]
            /\ query_log' = query_log
            /\ db_query_log' = db_query_log
            /\ now' = now
       /\ (/\ resp'.op = "submit"
           /\ reset_phase[resp'.ip] = "reset"
           /\ ~query_too_short(resp'.query)
           /\ resp'.verify \in {"none", "pass"}
           /\ resp'.rate.allowed)
          => (/\ resp'.status = 200
              /\ resp'.body.is_followup = FALSE
              /\ resp'.body.conversation_length = 1
              /\ resp'.plan.search_query = resp'.query
              /\ resp'.prompt.context = None
              /\ Len(conversation_sessions'[resp'.ip]) = 1)]_vars

C17_Witness ==
    /\ resp.op = "submit"
    /\ resp.status = 200
    /\ reset_phase[resp.ip] = "readmitted"
    /\ resp.body.is_followup = FALSE
    /\ \E c \in Clients \ {resp.ip} :
          /\ Len(conversation_sessions[c]) = MaxRequests
          /\ Len(query_log[c]) = MaxRequests

\* C18: a request that passes its checks calls the embedding service once,
\* then searches the vector store once, then calls the generation service once,
\* and appends the turn last: it stops after the embedding call when that call
\* fails and after the search when the store fails, and goes on to the append
\* whether the generation call returned or failed. No session changes in a
\* request that made no generation call, and the turn appended holds what the
\* generation step gave.
PIPELINE == <<"embedding", "vector_search", "generation", "session_append">>

PipelineCalls(trace) ==
    LET InPipeline(call) == call \in Range(PIPELINE)
    IN  SelectSeq(trace, InPipeline)

C18_SingleAttemptInOrder ==
    [][resp'.op = "submit" =>
        LET calls == PipelineCalls(resp'.trace)
            session == conversation_sessions'[resp'.ip]
        IN  /\ calls = IF calls = <<>> THEN <<>>
                       ELSE IF ~resp'.ext.embed_ok THEN Take(PIPELINE, 1)
                       ELSE IF resp'.ext.store = STORE_DOWN THEN Take(PIPELINE, 2)
                       ELSE PIPELINE
            /\ calls = <<>> <=> resp'.status \in CLIENT_ERRORS
            /\ conversation_sessions' # conversation_sessions
                   => "generation" \in Range(resp'.trace)
            /\ "session_append" \in Range(resp'.trace)
                   => /\ resp'.trace[Len(resp'.trace)] = "session_append"
                      /\ session # <<>>
                      /\ session[Len(session)].answer = synthesize_answer(resp'.ext.gen)
                      /\ session[Len(session)].answer = resp'.body.answer]_vars

C18_Witness ==
    /\ resp.op = "submit"
    /\ PipelineCalls(resp.trace) = PIPELINE
    /\ resp.ext.gen = GEN_FAIL
    /\ resp.ext.store = S_TEN
    /\ resp.before.turns = 1
    /\ Len(conversation_sessions[resp.ip]) = 2

\* C19: every check first drops the client's timestamps that are 24 hours old
\* or older and keeps the others in their order; right after a check the
\* client's sequence holds no expired timestamp, no timestamp of the future
\* and, the limit being fixed, at most limit timestamps.
C19_TrimmedOnEveryCheck ==
    [][resp'.op = "check" =>
        LET ip == resp'.ip
            before == query_log[ip]
            after == query_log'[ip]
            Fresh(timestamp) == now - timestamp < Day
            kept == SelectSeq(before, Fresh)
        IN  /\ after \in {kept, Append(kept, now)}
            /\ \A i \in 1..Len(after) : now - after[i] < Day /\ after[i] <= now
            /\ \A i \in 1..Len(before) :
                  before[i] < now - Day => before[i] \notin Range(after)
            /\ Len(after) <= resp'.limit
            /\ \A c \in Clients \ {ip} : query_log'[c] = query_log[c]]_vars

C19_Witness ==
    /\ resp.op = "check"
    /\ resp.limit >= 2
    /\ resp.rate.allowed
    /\ denied[resp.ip].limit = resp.limit
    /\ denied[resp.ip].at = now - Day
    /\ query_log[resp.ip] = <<now>>
    /\ \E c \in Clients \ {resp.ip} :
          /\ Len(query_log[c]) = resp.limit
          /\ \A i \in 1..Len(query_log[c]) : query_log[c][i] <= now - Day

\* C20: classification gives one of the five intents and depends on the query
\* text alone; when the guest rule does not apply the intent is comparison if a
\* comparison keyword occurs anywhere in the lower-cased query, else how_to if
\* it starts with a how-to phrase, else definition if it starts with a
\* definition phrase, else general. A query that starts with a how-to or a
\* definition phrase and contains a comparison keyword is comparison.
QUERY_INTENTS == {"general", "how_to", "definition", "comparison", "guest_specific"}

C20_LaterRulesInOrder ==
    (fn.name = "detect_query_type" /\ fn.done) =>
        LET q == str_lower(fn.arg)
            rule1 == /\ \E phrase \in GUEST_PHRASES : Contains(q, phrase)
                     /\ extract_guest_name(fn.arg) \notin {None, <<>>}
            keyword == \E w \in COMPARISON_WORDS : Contains(q, w)
            howto == \E p \in HOWTO_PREFIXES : StartsWith(q, p)
            definition == \E p \in DEFINITION_PREFIXES : StartsWith(q, p)
        IN  /\ fn.out \in QUERY_INTENTS
            /\ fn.out = "guest_specific" <=> rule1
            /\ ~rule1 =>
                  /\ fn.out = "comparison" <=> keyword
                  /\ fn.out = "how_to" <=> (~keyword /\ howto)
                  /\ fn.out = "definition" <=> (~keyword /\ ~howto /\ definition)
                  /\ fn.out = "general" <=> (~keyword /\ ~howto /\ ~definition)

C20_Witness ==
    /\ fn.name = "detect_query_type" /\ fn.done
    /\ fn.arg = Join(<<<<"H","o","w"," ","t","o">>, <<"c","o","m","p","a","r","e">>>>)
    /\ StartsWith(str_lower(fn.arg), <<"h","o","w"," ","t","o">>)
    /\ ~is_guest_query(fn.arg)
    /\ fn.out = "comparison"

\* C21 as stated: the name span is matched case-sensitively, so every word of
\* an extracted name begins with an upper-case letter; a query whose candidate
\* name is written in lower case yields no guest, and the lower-case words
\* before the name are no part of it.
Capitalized(name) ==
    /\ name # <<>>
    /\ \A i \in 1..Len(name) :
          (i = 1 \/ name[i - 1] = " ") => IsUpper(name[i])

C21_NameSpanCaseSensitive ==
    (fn.name = "extract_guest_name" /\ fn.done) =>
        /\ fn.out # None => Capitalized(fn.out)
        /\ fn.arg.name = str_lower(fn.arg.name) => fn.out = None
        /\ (fn.out # None /\ fn.arg.lead # <<>>)
              => ~Contains(fn.out, str_lower(fn.arg.lead))

\* C22: the context given to the generation step is the last min(2, n) turns
\* of the session as it was when the request came, oldest first, each as the
\* pair of its query and the first 250 characters of its answer; it is absent
\* exactly when the session was empty; and the search query is the raw query,
\* the previous query followed by the raw query, or the extracted topic, never
\* the context.
C22_ContextOfLastTwoTurns ==
    [][(resp'.op = "submit" /\ resp'.status = 200) =>
        LET session == conversation_sessions[resp'.ip]
            n == Len(session)
            k == IF n < 2 THEN n ELSE 2
            Cut(answer) == SubSeq(answer, 1, IF Len(answer) < 250 THEN Len(answer) ELSE 250)
            context == resp'.prompt.context
        IN  /\ context = None <=> n = 0
            /\ n > 0 =>
                  /\ Len(context) = k
                  /\ \A i \in 1..k :
                        context[i] = <<session[n - k + i].query, Cut(session[n - k + i].answer)>>
            /\ resp'.plan.search_query \in
                  {resp'.query, classified[resp'.query].detected_topic} \cup
                  (IF n > 0 THEN {session[n].query \o <<" ">> \o resp'.query} ELSE {})]_vars

C22_Witness ==
    /\ resp.op = "submit"
    /\ resp.status = 200
    /\ resp.before.turns = 3
    /\ Len(resp.prompt.context) = 2
    /\ resp.prompt.context[1] = <<Q_LONG, SubSeq(A_LONG, 1, 250)>>
    /\ resp.prompt.context[2] = <<Q_FOLLOW, A_TEXT>>
    /\ conversation_sessions[resp.ip][2].answer = A_LONG
    /\ resp.plan.search_query = Q_FOLLOW \o <<" ">> \o Q_FOLLOW

\* C23: every answered request uses one of three templates, chosen by the
\* intent of the raw query: the guest template, with the guest name extracted
\* from the raw query, for guest_specific; the comparison template for
\* comparison; the general template for general, how_to and definition. The
\* search parameters of the request were derived under the same intent.
PROMPT_TEMPLATES == {"guest_specific", "comparison", "general"}

C23_TemplateByIntent ==
    (resp.op = "submit" /\ resp.status = 200) =>
        LET intent == detect_query_type(resp.query)
            prompt == resp.prompt
        IN  /\ prompt.template \in PROMPT_TEMPLATES
            /\ prompt.template = "guest_specific" <=> intent = "guest_specific"
            /\ prompt.template = "comparison" <=> intent = "comparison"
            /\ prompt.template = "general" <=> intent \in {"general", "how_to", "definition"}
            /\ intent = "guest_specific" => prompt.guest_name = extract_guest_name(resp.query)
            /\ resp.plan.query_type = intent

C23_Witness ==
    /\ resp.op = "submit"
    /\ resp.status = 200
    /\ resp.query = Q_COMPARE
    /\ resp.before.turns = 1
    /\ resp.plan.search_query # resp.query
    /\ resp.plan.query_type = "comparison"
    /\ resp.prompt.template = "comparison"

\* C24: of the chunks that passed the quality gate, in their rank order, the
\* prompt takes the first 7 at most and the response's sources the first 5 at
\* most; total_results is the number of all of them, up to 10 for a
\* guest-specific query and up to 5 otherwise.
C24_RankedPrefixes ==
    (resp.op = "submit" /\ resp.status = 200) =>
        LET sims == resp.ext.store
            rows == IF Len(sims) < resp.plan.limit THEN Len(sims) ELSE resp.plan.limit
            passing == {i \in 1..rows : sims[i] > 35}
            kept == IF Cardinality(passing) >= 3 THEN passing ELSE {i \in 1..rows : i <= 3}
            Prefix(chunks, n) ==
                /\ Len(chunks) = IF Cardinality(kept) < n THEN Cardinality(kept) ELSE n
                /\ \A k \in 1..Len(chunks) :
                      /\ chunks[k].id \in kept
                      /\ chunks[k].similarity = sims[chunks[k].id]
                      /\ Cardinality({i \in kept : i < chunks[k].id}) = k - 1
        IN  /\ Prefix(resp.prompt.chunks, 7)
            /\ Prefix(resp.body.sources, 5)
            /\ resp.body.total_results = Cardinality(kept)
            /\ resp.body.total_results <= resp.plan.limit
            /\ resp.plan.limit = IF resp.plan.query_type = "guest_specific" THEN 10 ELSE 5

C24_Witness ==
    /\ resp.op = "submit"
    /\ resp.status = 200
    /\ resp.plan.query_type = "guest_specific"
    /\ resp.ext.store = S_EIGHT
    /\ resp.body.total_results = 8
    /\ Len(resp.prompt.chunks) = 7
    /\ Len(resp.body.sources) = 5
    /\ resp.prompt.chunks[7].id = 7

\* C25 as stated: after any search request has been handled, answered or
\* rejected, no session of any client holds a turn older than 24 hours.
C25_SweepOnEveryRequest ==
    resp.op = "submit" =>
        \A c \in Clients : \A i \in 1..Len(conversation_sessions[c]) :
            now - conversation_sessions[c][i].timestamp <= Day

\* the turns of a session that are less than 24 hours old at time t
Unexpired(session, t) ==
    LET Young(qa) == t - qa.timestamp < Day
    IN  SelectSeq(session, Young)

\* C26 as stated: a request of one client leaves the quota sequence of every
\* other client as it was and takes from another client's session nothing but
\* turns that are 24 hours old or older; and what a next request of another
\* client leaves as that client's quota sequence and unexpired turns is the
\* same whether or not the request has run before it.
C26_ClientsNeverContend ==
    [][resp'.op = "submit" =>
        \A other \in Clients \ {resp'.ip} :
            /\ query_log'[other] = query_log[other]
            /\ conversation_sessions'[other] \in
                  {conversation_sessions[other], Unexpired(conversation_sessions[other], now)}
            /\ \A ext \in DecayAnswers :
                  LET alone == search_with_answer(other, Q_FOLLOW, TOKEN_NONE, ext)
                      after == search_with_answer(other, Q_FOLLOW, TOKEN_NONE, ext)'
                  IN  /\ after.log = alone.log
                      /\ Unexpired(after.sessions[other], now)
                            = Unexpired(alone.sessions[other], now)]_vars

\* C29 as stated: a client whose session holds 5 turns, all older than 24
\* hours, is answered on its next valid query that the quota admits, whatever
\* other clients did and with no reset in between, and the query is handled as
\* the first of a conversation: no context and no carry-forward from the
\* expired turns.
C29_FullConversationDecays ==
    [][(/\ resp'.op = "submit"
        /\ Len(conversation_sessions[resp'.ip]) = 5
        /\ \A i \in 1..5 : now - conversation_sessions[resp'.ip][i].timestamp > Day
        /\ ~query_too_short(resp'.query)
        /\ resp'.rate.allowed)
       => (/\ resp'.status = 200
           /\ resp'.detail # CONVERSATION_LIMIT_DETAIL
           /\ resp'.prompt.context = None
           /\ resp'.plan.search_query = resp'.query
           /\ resp'.body.is_followup = FALSE)]_vars

\* C30 as stated: a request appends a turn to its client's session exactly
\* when it is answered successfully, and then one turn, holding its raw query
\* and its answer; a rejected request, one that fails at the embedding service
\* or at the store, and one whose generation call fails and gives only the
\* error text, leave the session without a new turn.
C30_AppendOnlyAfterSuccess ==
    [][resp'.op = "submit" =>
        LET ip == resp'.ip
            before == conversation_sessions[ip]
            after == conversation_sessions'[ip]
            successful == resp'.status = 200 /\ resp'.ext.gen # GEN_FAIL
        IN  IF successful
            THEN after = Append(Unexpired(before, now),
                                [query |-> resp'.query, answer |-> resp'.body.answer,
                                 timestamp |-> now])
            ELSE /\ after \in {before, Unexpired(before, now)}
                 /\ Len(after) <= Len(before)]_vars

====
